---------------------------- MODULE Spec2Model ----------------------------
(***************************************************************************)
(* pycane tracker core: the Diapost, GFDL, Nolan, GEOS5 and b-deck         *)
(* track-file parsers and the format detector get_track_data               *)
(* (postproc/tracker/utils.py), and the track differencer                  *)
(* (postproc/tracker/objects.py).                                          *)
(*                                                                         *)
(* Representation.                                                         *)
(*   - A file is the sequence of its lines; a line is the record of its    *)
(*     tokens.  Numeric tokens are held by their value (int()/float() of a *)
(*     well-formed decimal token), date tokens as <<day, hour>>.  A        *)
(*     Diapost line names in `bad' the token that is no number, if any.    *)
(*   - An exception ends the running call: pc moves to a `_raised'         *)
(*     position and `raised' holds the name of the exception.              *)
(*   - Latitudes and longitudes are whole degrees, pressures whole mb and  *)
(*     winds whole kts, so that the float arithmetic of the code is exact. *)
(*   - None is the empty sequence <<>>, a present value v is <<v>>.        *)
(*   - A datetime is held as its epoch second.                             *)
(*   - An open file object is an element of `handles', named after the     *)
(*     variable the code binds it to; an object the code holds by          *)
(*     reference is held by the name of the object referred to.            *)
(*   - track_error is the great-circle central angle in degrees of arc     *)
(*     (geopy's kilometres are this angle times a constant).               *)
(***************************************************************************)
EXTENDS Integers, Sequences, FiniteSets, TLC

VARIABLES
    pc,              \* position of the running call
    args,            \* arguments of the running parser call
    lines,           \* lines of the file iterated so far
    track,           \* the ForecastTrack the parser is building / returned
    processed_fhrs,  \* get_gfdltrk_track_data: local list processed_fhrs
    flagged_fhrs,    \* get_gfdltrk_track_data: local list flagged_fhrs
    track_one,       \* ForecastTrackDiff: trackOne
    track_two,       \* ForecastTrackDiff: trackTwo
    diff,            \* the ForecastTrackDiff object (or the exception raised)
    diff_src,        \* for each diff entry, the index of the trackOne entry it came from
    added_dates,     \* get_bdeck_track_data: local list added_dates
    raised,          \* name of the exception that ended the running call, "" if none
    det,             \* get_track_data: its arguments and what it has done so far
    handles          \* the file objects that are open

vars == <<pc, args, lines, track, processed_fhrs, flagged_fhrs,
          track_one, track_two, diff, diff_src, added_dates, raised, det,
          handles>>

-----------------------------------------------------------------------------
(* Bounds *)

\* longest file a parser spec reads
MaxLines == 3
\* longest file behind each of the two tracks that are differenced
MaxDiffLines == 2
\* most whitespace tokens on the first line of a file given to get_track_data
MaxTokens == 44

-----------------------------------------------------------------------------
(* Small helpers *)

None == <<>>
Some(v) == <<v>>
IsNone(o) == o = <<>>
Val(o) == o[1]

Abs(x) == IF x < 0 THEN -x ELSE x
Min2(x, y) == IF x < y THEN x ELSE y

SeqsUpTo(S, n) == UNION {[1..k -> S] : k \in 0..n}

-----------------------------------------------------------------------------
(* pycane.timing.conversions *)

\* epoch seconds of a YYYYMMDDHH token, held as <<day, hour>>
yyyymmddHH_to_epoch(tok) == tok[1] * 86400 + tok[2] * 3600

-----------------------------------------------------------------------------
(* objects.py: the data model *)

\* ForecastTrack.__init__ for a non-datetime startDate
ForecastTrack(startDate) ==
    [start_date |-> startDate, tracker_entries |-> <<>>]

\* ForecastTrack.append_entry
append_entry(trk, entry) ==
    [trk EXCEPT !.tracker_entries = Append(@, entry)]

\* TrackerData.__init__ with a bool `flagged', a numeric startDate and an int fhr
TrackerData(startDate, fhr, flagged, lat, lon, mslp, maxwind) ==
    [start_date    |-> startDate,
     fhr           |-> fhr,
     flagged       |-> flagged,
     lat           |-> lat,
     lon           |-> lon,
     mslp_value    |-> mslp,
     maxwind_value |-> maxwind,
     fcst_date     |-> startDate + fhr * 3600]

\* TrackerData.get_fhr_epoch
get_fhr_epoch(entry) == entry.start_date + (entry.fhr * 3600)

\* TrackerDataDiff.__init__
TrackerDataDiff(fhr, flagged, position, mslp, maxwind) ==
    [fhr           |-> fhr,
     flagged       |-> flagged,
     track_error   |-> position,
     mslp_error    |-> mslp,
     maxwind_error |-> maxwind]

-----------------------------------------------------------------------------
(* utils.py: geofence predicates *)

\* Basemap.is_land, the external land/sea classifier: equatorial Africa is land
LandPoints == {<<0, 20>>}
is_land(lon, lat) == <<lat, lon>> \in LandPoints

\* _check_if_in_bounds; nswe_thresh is None or <<n, s, w, e>>, each None or Some
check_if_in_bounds(lat, lon, nswe_thresh) ==
    IF IsNone(nswe_thresh) THEN TRUE
    ELSE LET n == nswe_thresh[1]
             s == nswe_thresh[2]
             w == nswe_thresh[3]
             e == nswe_thresh[4]
             lat_ == IF lat < 0 THEN 360 + lat ELSE lat
             lon_ == IF lon < 0 THEN 360 + lon ELSE lon
         IN  IF ~IsNone(n) /\ lat > Val(n) THEN FALSE
             ELSE IF ~IsNone(s) /\
                     lat_ < (IF Val(s) < 0 THEN 360 + Val(s) ELSE Val(s)) THEN FALSE
             ELSE IF ~IsNone(w) /\
                     lon_ < (IF Val(w) < 0 THEN 360 + Val(w) ELSE Val(w)) THEN FALSE
             ELSE IF ~IsNone(e) /\ lon > Val(e) THEN FALSE
             ELSE TRUE

-----------------------------------------------------------------------------
(* utils.py: get_diapost_track_data *)

\* int(duration / 3600.0) for a duration >= 0
DurationHours(duration) == Val(duration) \div 3600

\* mutant: a forecast hour exactly at the cap counts as beyond it
AfterDuration_AtCap(fhr, duration) ==
    ~IsNone(duration) /\ fhr >= DurationHours(duration)

\* `fhr > int(duration / 3600.0)' when a duration is given
AfterDuration(fhr, duration) ==
    ~IsNone(duration) /\ fhr > DurationHours(duration)

\* mutant: only the flag token 1 counts as flagged
DiapostFlagged_OnlyOne(line) == line.flag = 1

\* `int(toks[FLAG_IDX]) == 0' decides flagged_entry
DiapostFlagged(line) == line.flag # 0

\* the filter that guards the append
DiapostKeeps(in_bounds, include_flagged_entries, flagged_entry) ==
    in_bounds /\ (include_flagged_entries \/ ~flagged_entry)

\* mutant: a line of 7 tokens is taken for a record as well
DiapostRecognised_From7(line) == line.ntoks \in {7, 8}

\* `if len(toks) != 8: ... continue'
DiapostRecognised(line) == line.ntoks = 8

\* in_bounds after the bounding-box and the land tests
DiapostInBounds(line, a) ==
    LET inb1 == IF IsNone(a.nswe_thresh) THEN TRUE
                ELSE check_if_in_bounds(line.lat, line.lon, a.nswe_thresh)
    IN  IF a.skip_land_points /\ inb1 /\ is_land(line.lon, line.lat)
        THEN FALSE ELSE inb1

\* the exception an iteration raises, "" if none.  line.bad names the token
\* that is no number: "fhr" is converted first of all, "mslp" only inside
\* the guarded append
DiapostRaises(line, a) ==
    IF ~DiapostRecognised(line) THEN ""
    ELSE IF line.bad = "fhr" THEN "ValueError"
    ELSE IF AfterDuration(line.fhr, a.duration) THEN ""
    ELSE IF /\ line.bad = "mslp"
            /\ DiapostKeeps(DiapostInBounds(line, a), a.include_flagged_entries,
                            DiapostFlagged(line))
         THEN "ValueError"
    ELSE ""

\* one iteration of `for line in elfile.readlines()' that does not raise
DiapostStep(trk, line, a) ==
    IF ~DiapostRecognised(line) THEN trk
    ELSE IF AfterDuration(line.fhr, a.duration) THEN trk
    ELSE
      LET flagged_entry == DiapostFlagged(line)
          start_date == yyyymmddHH_to_epoch(line.date)
          t1 == [trk EXCEPT !.start_date = start_date]
          in_bounds == DiapostInBounds(line, a)
      IN  IF DiapostKeeps(in_bounds, a.include_flagged_entries, flagged_entry)
          THEN append_entry(t1, TrackerData(start_date, line.fhr, flagged_entry,
                                            line.lat, line.lon, line.mslp, line.wind))
          ELSE t1

RECURSIVE DiapostLoop(_, _, _)
DiapostLoop(trk, file, a) ==
    IF file = <<>> THEN trk
    ELSE DiapostLoop(DiapostStep(trk, Head(file), a), Tail(file), a)

\* the whole call on a readable file of lines that do not raise
get_diapost_track_data(file, a) == DiapostLoop(ForecastTrack(-1), file, a)

-----------------------------------------------------------------------------
(* objects.py: derived lookups of a ForecastTrack *)

\* the dict built by `for entry in ...: d[key] = entry', keys[j] being the key
\* of entries[j]: a later entry with the same key replaces an earlier one
DictOf(entries, keys) ==
    LET n == Len(entries)
        Last(k) == CHOOSE j \in 1..n :
                      /\ keys[j] = k
                      /\ \A i \in (j+1)..n : keys[i] # k
    IN  [k \in {keys[j] : j \in 1..n} |-> entries[Last(k)]]

\* ForecastTrack.absolute_times_dict
absolute_times_dict(trk) ==
    DictOf(trk.tracker_entries,
           [j \in 1..Len(trk.tracker_entries) |->
              trk.start_date + trk.tracker_entries[j].fhr * 3600])

\* the exception absolute_times_dict raises, "" if none: `entry.fhr*3600' of
\* an entry whose fhr is None is a TypeError
absolute_times_dict_raises(trk) ==
    IF \E j \in 1..Len(trk.tracker_entries) : IsNone(trk.tracker_entries[j].fhr)
    THEN "TypeError" ELSE ""

\* ForecastTrack.fhr_dict (a property)
fhr_dict(trk) ==
    DictOf(trk.tracker_entries,
           [j \in 1..Len(trk.tracker_entries) |-> trk.tracker_entries[j].fhr])

\* ForecastTrack.fcst_date_dict (a property)
fcst_date_dict(trk) ==
    DictOf(trk.tracker_entries,
           [j \in 1..Len(trk.tracker_entries) |-> trk.tracker_entries[j].fcst_date])

-----------------------------------------------------------------------------
(* objects.py: ForecastTrackDiff *)

\* geopy's great_circle(a, b) as the central angle in degrees, for points on
\* the equator or at a pole (where the angle is a whole number of degrees)
great_circle(latlonOne, latlonTwo) ==
    LET la1 == latlonOne[1]
        lo1 == latlonOne[2]
        la2 == latlonTwo[1]
        lo2 == latlonTwo[2]
        d   == Abs(lo1 - lo2) % 360
    IN  IF Abs(la1) = 90 /\ Abs(la2) = 90 THEN (IF la1 = la2 THEN 0 ELSE 180)
        ELSE IF Abs(la1) = 90 \/ Abs(la2) = 90 THEN 90
        ELSE Min2(d, 360 - d)

\* self.operator(x, y): op.sub by default, any two-argument function otherwise
ApplyOperator(operator, x, y) ==
    IF operator = "sub" THEN x - y ELSE x + y

\* mutant: the flag of trackTwo's entry is forgotten
DiffFlagged_OnlyOne(trkOneEntry, trkTwoEntry) ==
    trkOneEntry.flagged

\* `flagged' of the new TrackerDataDiff
DiffFlagged(trkOneEntry, trkTwoEntry) ==
    trkTwoEntry.flagged \/ trkOneEntry.flagged

\* mutant: `absolute' is ignored
MaybeAbs_Ignored(absolute, x) == x

\* `if self.absolute: ... = abs(...)'
MaybeAbs(absolute, x) == IF absolute THEN Abs(x) ELSE x

\* the TrackerDataDiff for one aligned pair
DiffEntry(trkOneEntry, trkTwoEntry, o) ==
    LET positionDiff == great_circle(<<trkOneEntry.lat, trkOneEntry.lon>>,
                                     <<trkTwoEntry.lat, trkTwoEntry.lon>>)
        mslpDiff    == ApplyOperator(o.operator, trkOneEntry.mslp_value,
                                     trkTwoEntry.mslp_value)
        maxwindDiff == ApplyOperator(o.operator, trkOneEntry.maxwind_value,
                                     trkTwoEntry.maxwind_value)
    IN  TrackerDataDiff(trkOneEntry.fhr,
                        DiffFlagged(trkOneEntry, trkTwoEntry),
                        positionDiff,
                        MaybeAbs(o.absolute, mslpDiff),
                        MaybeAbs(o.absolute, maxwindDiff))

\* one iteration of `for trkOneEntry in self.track_one.tracker_entries';
\* acc = [status, tracker_entries, src]
DiffStep(acc, i, one, two, o) ==
    LET trkOneEntry == one.tracker_entries[i]
    IN  IF o.absoluteTimeDiff
        THEN LET trkTwoDict == absolute_times_dict(two)
                 key == get_fhr_epoch(trkOneEntry)
             IN  IF key \notin DOMAIN trkTwoDict THEN acc
                 ELSE LET trkTwoEntry == trkTwoDict[key]
                      IN  IF (trkTwoEntry.flagged \/ trkOneEntry.flagged)
                             /\ ~o.include_flagged
                          THEN acc
                          ELSE [acc EXCEPT
                                  !.tracker_entries =
                                      Append(@, DiffEntry(trkOneEntry, trkTwoEntry, o)),
                                  !.src = Append(@, i)]
        \* `self.track_two.fhr_dict()' calls the dict the property returns
        ELSE [acc EXCEPT !.status = "TypeError"]

RECURSIVE DiffLoop(_, _, _, _, _)
DiffLoop(acc, i, one, two, o) ==
    IF i > Len(one.tracker_entries) \/ acc.status # "ok" THEN acc
    ELSE DiffLoop(DiffStep(acc, i, one, two, o), i + 1, one, two, o)

\* ForecastTrackDiff._get_track_diffs
get_track_diffs(one, two, o) ==
    DiffLoop([status |-> "ok", tracker_entries |-> <<>>, src |-> <<>>],
             1, one, two, o)

\* the caller's two Track objects, by identity
TrackRefs == {"trackOne", "trackTwo"}

\* mutant: the diff takes its start_date from trackTwo
ForecastTrackDiff_StartOfTwo(trackOne, trackTwo, o) ==
    LET r == get_track_diffs(trackOne, trackTwo, o)
    IN  [status                   |-> r.status,
         track_one                |-> "trackOne",
         track_two                |-> "trackTwo",
         start_date               |-> trackTwo.start_date,
         absolute_time_difference |-> o.absoluteTimeDiff,
         operator                 |-> o.operator,
         absolute                 |-> o.absolute,
         include_flagged          |-> o.include_flagged,
         tracker_entries          |-> IF r.status = "ok" THEN r.tracker_entries
                                      ELSE <<>>]

\* ForecastTrackDiff.__init__: the object, or the exception that left none;
\* `self.track_one = trackOne' and `self.track_two = trackTwo' store the
\* caller's objects themselves, held here by identity
ForecastTrackDiff(trackOne, trackTwo, o) ==
    LET r == get_track_diffs(trackOne, trackTwo, o)
    IN  [status                   |-> r.status,
         track_one                |-> "trackOne",
         track_two                |-> "trackTwo",
         start_date               |-> trackOne.start_date,
         absolute_time_difference |-> o.absoluteTimeDiff,
         operator                 |-> o.operator,
         absolute                 |-> o.absolute,
         include_flagged          |-> o.include_flagged,
         tracker_entries          |-> IF r.status = "ok" THEN r.tracker_entries
                                      ELSE <<>>]

-----------------------------------------------------------------------------
(* utils.py: get_gfdltrk_track_data *)

\* the literal token '0' of a latitude column, as <<magnitude, hemisphere>>
ZeroTok == <<0, "">>

\* `int(tok[:-1])/10.0', negated for the hemisphere letter `neg'
TokDegrees(tok, neg) ==
    LET v == tok[1] \div 10
    IN  IF tok[2] = neg THEN -v ELSE v

\* flagged_fhrs before the loop: the side-file is read only `if include_flagged_entries'
InitialFlaggedFhrs(a) ==
    IF a.include_flagged_entries
    THEN (IF IsNone(a.flagged_entries_file) THEN <<>> ELSE Val(a.flagged_entries_file))
    ELSE <<>>

\* mutant: the fort.69 hour is taken as it stands
GfdlFhr_Undivided(line) == line.fhr

\* fhr of a line: `fhr /= 100' for a 20-token (fort.69) line
GfdlFhr(line) == IF line.ntoks = 20 THEN line.fhr \div 100 ELSE line.fhr

\* `if fhr in flagged_fhrs: flagged_entry = True'
InFlaggedFhrs(fhr, flagged) == \E j \in 1..Len(flagged) : flagged[j] = fhr

\* mutant: a repeated forecast hour is not skipped
AlreadyProcessed_Never(fhr, processed) == FALSE

\* `if fhr in processed_fhrs: continue'
AlreadyProcessed(fhr, processed) == \E j \in 1..Len(processed) : processed[j] = fhr

\* mutant: the pressure and wind tokens of a '0'-latitude line are kept
GfdlToks_KeepsValues(line, fhr, flagged) ==
    IF line.lat = ZeroTok
    THEN [flagged_entry |-> TRUE, lat |-> <<0, "N">>, lon |-> <<0, "E">>,
          mslp |-> line.mslp, wind |-> line.wind]
    ELSE [flagged_entry |-> InFlaggedFhrs(fhr, flagged), lat |-> line.lat,
          lon |-> line.lon, mslp |-> line.mslp, wind |-> line.wind]

\* the tokens after the `== '0'' rewrite, and the flag
GfdlToks(line, fhr, flagged) ==
    IF line.lat = ZeroTok
    THEN [flagged_entry |-> TRUE, lat |-> <<0, "N">>, lon |-> <<0, "E">>,
          mslp |-> 0, wind |-> 0]
    ELSE [flagged_entry |-> InFlaggedFhrs(fhr, flagged), lat |-> line.lat,
          lon |-> line.lon, mslp |-> line.mslp, wind |-> line.wind]

\* mutant: the hour of a '0'-latitude line is not added to flagged_fhrs
RememberFlagged_Forgets(flagged, line, fhr) == flagged

\* `flagged_fhrs.append(fhr)' under `if toks[latIdx] == '0''
RememberFlagged(flagged, line, fhr) ==
    IF line.lat = ZeroTok THEN Append(flagged, fhr) ELSE flagged

\* mutant: any line with at least 5 comma tokens is taken for a record
GfdlRecognised_From5(line) == line.ntoks >= 5

\* `if len(toks) not in (43,20): ... continue', negated
GfdlRecognised(line) == line.ntoks \in {43, 20}

\* one iteration of `for lineNbr,line in enumerate(lines)';
\* st = [track, processed_fhrs, flagged_fhrs]
GfdlStep(st, line, a) ==
    IF ~GfdlRecognised(line) THEN st
    ELSE
      LET fhr == GfdlFhr(line)
      IN  IF AlreadyProcessed(fhr, st.processed_fhrs) THEN st
          ELSE IF AfterDuration(fhr, a.duration) THEN st
          ELSE
            LET toks == GfdlToks(line, fhr, st.flagged_fhrs)
                start_date == yyyymmddHH_to_epoch(line.date)
                lat == TokDegrees(toks.lat, "S")
                lon == TokDegrees(toks.lon, "W")
                t1 == [st.track EXCEPT !.start_date = start_date]
                in_bounds == ~(a.skip_land_points /\ is_land(lon, lat))
            IN  [track |->
                    IF in_bounds /\ (a.include_flagged_entries \/ ~toks.flagged_entry)
                    THEN append_entry(t1, TrackerData(start_date, fhr,
                                          toks.flagged_entry, lat, lon,
                                          toks.mslp, toks.wind))
                    ELSE t1,
                 processed_fhrs |-> Append(st.processed_fhrs, fhr),
                 flagged_fhrs |-> RememberFlagged(st.flagged_fhrs, line, fhr)]

RECURSIVE GfdlLoop(_, _, _)
GfdlLoop(st, file, a) ==
    IF file = <<>> THEN st
    ELSE GfdlLoop(GfdlStep(st, Head(file), a), Tail(file), a)

\* the locals before the loop
GfdlStart(a) ==
    [track |-> ForecastTrack(-1), processed_fhrs |-> <<>>,
     flagged_fhrs |-> InitialFlaggedFhrs(a)]

\* the whole call on a readable file
get_gfdltrk_track_data(file, a) == GfdlLoop(GfdlStart(a), file, a).track

-----------------------------------------------------------------------------
(* utils.py: get_nolan_track_data *)

\* conversions.yyyymmddHHMMSS_to_epoch of a token with minutes and seconds 00,
\* held as <<day, hour>>
yyyymmddHHMMSS_to_epoch(tok) == tok[1] * 86400 + tok[2] * 3600

\* `fhr = (fcstDate - startDate) / 3600' on ints
NolanFhr(fcstDate, startDate) == (fcstDate - startDate) \div 3600

\* the track after `fcst_track = ForecastTrack(startDate)', startDate taken
\* from the first line of the file
NolanStart(first) == ForecastTrack(yyyymmddHHMMSS_to_epoch(first.date))

\* the exception an iteration raises, "" if none: the tokens up to
\* toks[maxwind_idx] are read without a test of their number
NolanRaises(line) == IF line.ntoks <= 7 THEN "IndexError" ELSE ""

\* one iteration of `for line in lines' that does not raise
NolanStep(trk, line) ==
    LET startDate == trk.start_date
        fcstDate == yyyymmddHHMMSS_to_epoch(line.date)
    IN  append_entry(trk, TrackerData(startDate, NolanFhr(fcstDate, startDate),
                                      FALSE, line.lat, line.lon,
                                      line.mslp \div 100, line.wind))

-----------------------------------------------------------------------------
(* utils.py: get_geos5trk_track_data *)

\* str of a datetime under the format "{0:%s}", held as <<"%s", epoch second>>
FormatEpoch(dt) == <<"%s", dt>>

\* ForecastTrack.__init__ for a datetime startDate
ForecastTrackOfDatetime(startDate) ==
    [start_date |-> FormatEpoch(startDate), tracker_entries |-> <<>>]

\* TrackerData.__init__ with fcstDate given
TrackerDataAt(startDate, fhr, flagged, lat, lon, mslp, maxwind, fcstDate) ==
    [start_date    |-> startDate,
     fhr           |-> fhr,
     flagged       |-> flagged,
     lat           |-> lat,
     lon           |-> lon,
     mslp_value    |-> mslp,
     maxwind_value |-> maxwind,
     fcst_date     |-> fcstDate]

\* dtime_for_line: the datetime of the first two tokens of a line
dtime_for_line(line) == line.date[1] * 86400 + line.date[2] * 3600

\* the track after `fcst_track = ForecastTrack(start_date)'
Geos5Start(first) == ForecastTrackOfDatetime(dtime_for_line(first))

\* the exception an iteration raises, "" if none: the tokens up to
\* toks[maxwind_idx] are read without a test of their number
Geos5Raises(line) == IF line.ntoks <= 13 THEN "IndexError" ELSE ""

\* one iteration of `for line in lines' that does not raise; start_date is
\* the datetime of the first line
Geos5Step(trk, line, start_date) ==
    append_entry(trk, TrackerDataAt(start_date, None, FALSE, line.lat, line.lon,
                                    line.mslp, line.wind, dtime_for_line(line)))

-----------------------------------------------------------------------------
(* utils.py: get_track_data *)

\* mutant: the commented-out b-deck branch for 17 and 35 tokens is live
ParserFor_WithBdeckBranch(n) ==
    CASE n = 13 -> "get_nolan_track_data"
      [] n \in {43, 20} -> "get_gfdltrk_track_data"
      [] n = 8 -> "get_diapost_track_data"
      [] n \in {19, 30} -> "get_syndat_track_data"
      [] n = 16 -> "get_geos5trk_track_data"
      [] n \in {17, 35} -> "get_bdeck_track_data"
      [] OTHER -> ""

\* the function the if/elif chain on len(lineDat) names, "" in the else branch
ParserFor(n) ==
    CASE n = 13 -> "get_nolan_track_data"
      [] n \in {43, 20} -> "get_gfdltrk_track_data"
      [] n = 8 -> "get_diapost_track_data"
      [] n \in {19, 30} -> "get_syndat_track_data"
      [] n = 16 -> "get_geos5trk_track_data"
      [] OTHER -> ""

\* the functions utils.py defines
DefinedParsers ==
    {"get_diapost_track_data", "get_gfdltrk_track_data", "get_nolan_track_data",
     "get_geos5trk_track_data", "get_bdeck_track_data"}

\* mutant: the first line is read before the path is looked at
OpensFile_Always(path) == TRUE

\* `with open(atcfPath)' is reached for a path that exists and is no directory
OpensFile(path) == path = "file"

\* get_track_data up to the call of a parser: whether it opened the file,
\* the parser it called, the exception it raised itself ("" if none);
\* d = [path, ntoks, stormID, startDate]
get_track_data(d) ==
    IF d.path = "missing"
    THEN [opened |-> OpensFile(d.path), called |-> <<>>, raised |-> "Exception"]
    ELSE IF d.path = "dir"
    THEN [opened |-> OpensFile(d.path), called |-> <<"get_bdeck_track_data">>,
          raised |-> ""]
    ELSE
      LET p == ParserFor(d.ntoks)
      IN  IF p = ""
          THEN [opened |-> OpensFile(d.path), called |-> <<>>, raised |-> "Exception"]
          ELSE IF p = "get_syndat_track_data" /\ (IsNone(d.stormID) \/ IsNone(d.startDate))
          THEN [opened |-> OpensFile(d.path), called |-> <<>>, raised |-> "Exception"]
          ELSE IF p \notin DefinedParsers
          THEN [opened |-> OpensFile(d.path), called |-> <<>>, raised |-> "NameError"]
          ELSE [opened |-> OpensFile(d.path), called |-> <<p>>, raised |-> ""]

\* mutant: flagged entries are included by default
DiapostDefaults_IncludeFlagged ==
    [include_flagged_entries |-> TRUE, duration |-> None,
     nswe_thresh |-> None, skip_land_points |-> FALSE]

\* the keyword defaults of get_diapost_track_data
DiapostDefaults ==
    [include_flagged_entries |-> FALSE, duration |-> None,
     nswe_thresh |-> None, skip_land_points |-> FALSE]

\* the keyword defaults of get_gfdltrk_track_data ("" for the side-file)
GfdlDefaults ==
    [flagged_entries_file |-> None, include_flagged_entries |-> FALSE,
     duration |-> None, skip_land_points |-> FALSE]

-----------------------------------------------------------------------------
(* utils.py: get_bdeck_track_data *)

\* conversions.epoch_to_yyyymmddHHMM fails on an input that is not a number
epoch_to_yyyymmddHHMM_fails(epoch) == IsNone(epoch)

\* the last letters of a stormID for which basinId is assigned
BasinLetters == {"L", "E", "Q", "S", "C"}

\* the exception the statements before the loop raise, "" if none; a stormID
\* is None or Some(<<storm number, basin letter>>), the b-deck file exists
BdeckEntryError(a) ==
    IF epoch_to_yyyymmddHHMM_fails(a.startDate) THEN "MalformedTimestamp"
    ELSE IF IsNone(a.stormID) THEN "AttributeError"
    ELSE IF Val(a.stormID)[2] \notin BasinLetters THEN "UnboundLocalError"
    ELSE ""

\* the three `assert' statements on the tokens of a line
BdeckAsserts(line) ==
    /\ line.lat[2] \in {"N", "S"}
    /\ line.lon[2] \in {"W", "E"}
    /\ line.tracktype = "BEST"

\* mutant: a record date is never found in added_dates
BdeckAlreadyAdded_Never(currDate, added) == FALSE

\* `if currDate in added_dates: continue'
BdeckAlreadyAdded(currDate, added) == \E j \in 1..Len(added) : added[j] = currDate

\* `fhr = (currDate - startDate) / 3600' on ints
BdeckFhr(currDate, startDate) == (currDate - startDate) \div 3600

\* one iteration of `for line in lines'; st = [track, added_dates, status],
\* status the exception the iteration raised, "" if none
BdeckStep(st, line, startDate) ==
    IF line.ntoks <= 7 THEN [st EXCEPT !.status = "IndexError"]
    ELSE IF ~BdeckAsserts(line) THEN [st EXCEPT !.status = "AssertionError"]
    ELSE
      LET lat == TokDegrees(line.lat, "S")
          lon == TokDegrees(line.lon, "W")
          currDate == yyyymmddHH_to_epoch(line.date)
      IN  IF BdeckAlreadyAdded(currDate, st.added_dates) THEN st
          ELSE IF currDate < startDate THEN st
          ELSE IF line.ntoks <= 9 THEN [st EXCEPT !.status = "IndexError"]
          ELSE [track |-> append_entry(st.track,
                              TrackerData(startDate, BdeckFhr(currDate, startDate),
                                          FALSE, lat, lon, line.mslp, line.wind)),
                added_dates |-> Append(st.added_dates, currDate),
                status |-> ""]

\* the locals before the loop
BdeckStart(a) ==
    [track |-> ForecastTrack(Val(a.startDate)), added_dates |-> <<>>, status |-> ""]

-----------------------------------------------------------------------------
(* Inputs *)

Day0Hour0 == <<0, 0>>
Day0Hour1 == <<0, 1>>

\* a Diapost line of 8 whitespace tokens
DLine(date, fhr, flag, lat, lon, mslp, wind) ==
    [ntoks |-> 8, date |-> date, fhr |-> fhr, flag |-> flag,
     lat |-> lat, lon |-> lon, mslp |-> mslp, wind |-> wind, bad |-> ""]

\* a Diapost line of 8 tokens whose forecast-hour token (bad = "fhr") or
\* pressure token (bad = "mslp") is no number
DBadLine(bad, date, fhr, flag) ==
    [ntoks |-> 8, date |-> date, fhr |-> fhr, flag |-> flag,
     lat |-> 0, lon |-> 0, mslp |-> 0, wind |-> 30, bad |-> bad]

\* a line of 7 tokens: none of its fields is read
DiapostShortLine ==
    [ntoks |-> 7, date |-> Day0Hour0, fhr |-> 0, flag |-> 0,
     lat |-> 0, lon |-> 0, mslp |-> 0, wind |-> 0, bad |-> ""]

\* the lines a Diapost file is made of
DiapostLines ==
    {DiapostShortLine}
    \cup {DLine(Day0Hour0, f, g, 0, 0, 1000 - 10 * f, 30 + g) :
             f \in 0..2, g \in 0..2}
    \cup {DLine(Day0Hour1, 0, 0, 0, 0, 980, 40),
          DLine(Day0Hour1, 1, 1, 0, 0, 970, 45),
          DLine(Day0Hour0, 0, 0, 0, 20, 1005, 20),
          DLine(Day0Hour0, 1, 0, -10, -40, 995, 25),
          DLine(Day0Hour0, 0, 1, -10, -40, 985, 35),
          DBadLine("fhr", Day0Hour0, 0, 0),
          DBadLine("mslp", Day0Hour0, 2, 1)}

\* a bounding box around the equator and the prime meridian
EquatorBox == <<Some(5), Some(-5), Some(-5), Some(30)>>

DiapostArgs ==
    [include_flagged_entries : BOOLEAN,
     duration                : {None, Some(3600), Some(5400)},
     nswe_thresh             : {None, EquatorBox},
     skip_land_points        : BOOLEAN]

\* a GFDL line of n comma tokens
GLine(n, date, fhr, lat, lon, mslp, wind) ==
    [ntoks |-> n, date |-> date, fhr |-> fhr, lat |-> lat, lon |-> lon,
     mslp |-> mslp, wind |-> wind]

\* the lines a GFDL tracker file is made of
GfdlLines ==
    {GLine(5, Day0Hour0, 0, <<100, "N">>, <<400, "W">>, 1000, 30)}
    \cup {GLine(43, Day0Hour0, f, <<100, "N">>, <<400, "W">>, 1000 - 10 * f, 30) :
             f \in 0..2}
    \cup {GLine(43, Day0Hour0, f, ZeroTok, <<400, "W">>, 990, 50) : f \in 0..2}
    \cup {GLine(43, Day0Hour0, f, <<200, "S">>, <<300, "E">>, 960, 60) : f \in 0..1}
    \cup {GLine(43, Day0Hour1, 1, <<100, "N">>, <<400, "W">>, 975, 35),
          GLine(43, Day0Hour0, 0, <<0, "N">>, <<200, "E">>, 1005, 20)}
    \cup {GLine(20, Day0Hour0, r, <<100, "N">>, <<400, "W">>, 1000, 30) :
             r \in {0, 100, 150, 200}}
    \cup {GLine(20, Day0Hour0, 100, ZeroTok, <<400, "W">>, 990, 50)}

GfdlArgs ==
    [flagged_entries_file    : {None, Some(<<1>>)},
     include_flagged_entries : BOOLEAN,
     duration                : {None, Some(3600), Some(5400)},
     skip_land_points        : BOOLEAN]

\* the Diapost lines behind the two tracks that are differenced: every
\* observation lies on the equator; two readings, two start dates, two
\* forecast hours, flagged and unflagged
DiffLines ==
    {DLine(Day0Hour0, 0, 0, 0, 0, 1000, 30),
     DLine(Day0Hour0, 0, 0, 0, 20, 990, 50),
     DLine(Day0Hour0, 1, 0, 0, 0, 1000, 30),
     DLine(Day0Hour0, 1, 1, 0, 20, 990, 50),
     DLine(Day0Hour1, 0, 0, 0, 0, 1000, 30),
     DLine(Day0Hour1, 0, 1, 0, 20, 990, 50)}

\* files of three lines behind trackTwo: two observations of one absolute
\* time, then a line with the other start date
DiffLongFiles ==
    {<<DLine(Day0Hour0, 1, 1, 0, 20, 990, 50),
       DLine(Day0Hour1, 0, 0, 0, 0, 1000, 30),
       DLine(Day0Hour0, 0, 0, 0, 0, 1000, 30)>>,
     <<DLine(Day0Hour1, 0, 0, 0, 0, 1000, 30),
       DLine(Day0Hour0, 1, 0, 0, 0, 1000, 30),
       DLine(Day0Hour1, 0, 1, 0, 20, 990, 50)>>}

DiffParseArgs ==
    [include_flagged_entries : BOOLEAN,
     duration                : {None},
     nswe_thresh             : {None},
     skip_land_points        : {FALSE}]

\* the observation a caller appends to a source Track after the diff is built
SourceEntries == {TrackerData(0, 2, FALSE, 0, 20, 990, 50)}

DiffOptions ==
    [absoluteTimeDiff : BOOLEAN,
     operator         : {"sub", "add"},
     include_flagged  : BOOLEAN,
     absolute         : BOOLEAN]

\* a b-deck line of 20 comma-space tokens
BLine(tracktype, date, lat, lon, wind, mslp) ==
    [ntoks |-> 20, tracktype |-> tracktype, date |-> date, lat |-> lat,
     lon |-> lon, wind |-> wind, mslp |-> mslp]

\* a line of 3 tokens
BdeckShortLine ==
    [ntoks |-> 3, tracktype |-> "", date |-> Day0Hour0, lat |-> <<0, "">>,
     lon |-> <<0, "">>, wind |-> 0, mslp |-> 0]

\* the lines a b-deck file is made of: two records for each of the hours 0
\* and 1 of day 0, one for hour 2, a record of another track type, a record
\* with a malformed latitude, and a short line
BdeckLines ==
    {BLine("BEST", <<0, h>>, <<100 + 10 * h, "N">>, <<400, "W">>, 30 + v, 1000 - v) :
        h \in 0..1, v \in 0..1}
    \cup {BLine("BEST", <<0, 2>>, <<200, "S">>, <<300, "E">>, 50, 980),
          BLine("CARQ", <<0, 1>>, <<100, "N">>, <<400, "W">>, 35, 990),
          BLine("BEST", <<0, 1>>, <<100, "X">>, <<400, "W">>, 35, 990),
          BdeckShortLine}

BdeckArgs ==
    [stormID   : {None, Some(<<9, "L">>), Some(<<9, "X">>)},
     startDate : {None, Some(0), Some(3600)}]

\* the calls of get_track_data: a path that does not exist, a directory, or a
\* regular file whose first line has ntoks whitespace tokens
DetectCalls ==
    [path      : {"missing", "dir"},
     ntoks     : {0},
     stormID   : {None, Some(<<9, "L">>)},
     startDate : {None, Some(0)}]
    \cup
    [path      : {"file"},
     ntoks     : 0..MaxTokens,
     stormID   : {None, Some(<<9, "L">>)},
     startDate : {None, Some(0)}]

\* a line of a Nolan hnr1 file; the pressure token is in Pa
NLine(ntoks, date, lat, lon, mslp, wind) ==
    [ntoks |-> ntoks, date |-> date, lat |-> lat, lon |-> lon,
     mslp |-> mslp, wind |-> wind]

\* the lines a Nolan file is made of: the hours 0 to 2 of day 0, a second
\* record for hour 1, and a line of 5 tokens
NolanLines ==
    {NLine(13, <<0, h>>, 10 + h, -40, 100000 - 1000 * h, 30 + h) : h \in 0..2}
    \cup {NLine(13, <<0, 1>>, 12, -42, 98500, 45),
          NLine(5, <<0, 1>>, 0, 0, 0, 0)}

\* a line of a GEOS5 nature-run file
G5Line(ntoks, date, lat, lon, mslp, wind) ==
    [ntoks |-> ntoks, date |-> date, lat |-> lat, lon |-> lon,
     mslp |-> mslp, wind |-> wind]

\* the lines a GEOS5 file is made of: the hours 0 to 2 of day 0, a second
\* record for hour 1, and a line of 5 tokens
Geos5Lines ==
    {G5Line(16, <<0, h>>, 30 + h, 270, 1000 - 5 * h, 35 + h) : h \in 0..2}
    \cup {G5Line(16, <<0, 1>>, 32, 272, 985, 50),
          G5Line(5, <<0, 1>>, 0, 0, 0, 0)}

-----------------------------------------------------------------------------
(* State machine *)

NoArgs == [include_flagged_entries |-> FALSE]
NoDiff == [status |-> "none"]
NoCall == [path |-> "none"]

Init ==
    /\ pc = "idle"
    /\ args = NoArgs
    /\ lines = <<>>
    /\ track = ForecastTrack(-1)
    /\ processed_fhrs = <<>>
    /\ flagged_fhrs = <<>>
    /\ track_one = ForecastTrack(-1)
    /\ track_two = ForecastTrack(-1)
    /\ diff = NoDiff
    /\ diff_src = <<>>
    /\ added_dates = <<>>
    /\ raised = ""
    /\ det = NoCall
    /\ handles = {}

\* leaving a `with open(...)' block, by return or by exception, closes its file
WithFiles == {"trkFile", "trk_file"}
ExitWith(h) == h \ WithFiles

\* the files get_gfdltrk_track_data opens before its loop: the side-file
\* inside the list comprehension, then `elfile = open(path, 'r')'
GfdlOpens(a) ==
    {"elfile"} \cup
    (IF a.include_flagged_entries /\ ~IsNone(a.flagged_entries_file)
     THEN {"flagged_entries_file"} ELSE {})

\* `el_file = gzip.open(stormAtcfPath, "rb")', reached when nothing before
\* it raised
BdeckOpens(a) == IF BdeckEntryError(a) = "" THEN {"el_file"} ELSE {}

\* `with open(atcfPath) as trkFile' of get_track_data
DetectOpens(d) == IF get_track_data(d).opened THEN {"trkFile"} ELSE {}

\* get_diapost_track_data is called: the file is opened, the track created
DiapostCall ==
    /\ pc = "idle"
    /\ \E a \in DiapostArgs : args' = a
    /\ track' = ForecastTrack(-1)
    /\ lines' = <<>>
    /\ pc' = "diapost"
    /\ handles' = handles \cup {"elfile"}
    /\ UNCHANGED <<processed_fhrs, flagged_fhrs, track_one, track_two, diff, diff_src,
                   added_dates, raised, det>>

\* the loop takes the next line of the file
DiapostReadLine ==
    /\ pc = "diapost"
    /\ Len(lines) < MaxLines
    /\ \E line \in DiapostLines :
          \* the first line is the one get_track_data counted the tokens of
          /\ (det.path = "file" /\ lines = <<>>) => line.ntoks = det.ntoks
          /\ lines' = Append(lines, line)
          /\ raised' = DiapostRaises(line, args)
          /\ IF DiapostRaises(line, args) = ""
             THEN track' = DiapostStep(track, line, args) /\ pc' = "diapost"
             ELSE track' = track /\ pc' = "diapost_raised"
    /\ handles' = IF pc' = "diapost" THEN handles ELSE ExitWith(handles)
    /\ UNCHANGED <<args, processed_fhrs, flagged_fhrs,
                   track_one, track_two, diff, diff_src, added_dates, det>>

\* end of file: `return track'
DiapostReturn ==
    /\ pc = "diapost"
    /\ det.path = "file" => lines # <<>>
    /\ pc' = "diapost_returned"
    /\ handles' = ExitWith(handles)
    /\ UNCHANGED <<args, lines, track, processed_fhrs, flagged_fhrs,
                   track_one, track_two, diff, diff_src,
                   added_dates, raised, det>>

\* get_gfdltrk_track_data is called: side-file read, file opened, track created
GfdlCall ==
    /\ pc = "idle"
    /\ \E a \in GfdlArgs :
          /\ args' = a
          /\ track' = GfdlStart(a).track
          /\ processed_fhrs' = GfdlStart(a).processed_fhrs
          /\ flagged_fhrs' = GfdlStart(a).flagged_fhrs
    /\ lines' = <<>>
    /\ pc' = "gfdl"
    /\ handles' = handles \cup GfdlOpens(args')
    /\ UNCHANGED <<track_one, track_two, diff, diff_src,
                   added_dates, raised, det>>

\* the loop takes the next line of the file
GfdlReadLine ==
    /\ pc = "gfdl"
    /\ Len(lines) < MaxLines
    /\ \E line \in GfdlLines :
          LET st == GfdlStep([track |-> track, processed_fhrs |-> processed_fhrs,
                              flagged_fhrs |-> flagged_fhrs], line, args)
          IN  /\ lines' = Append(lines, line)
              /\ track' = st.track
              /\ processed_fhrs' = st.processed_fhrs
              /\ flagged_fhrs' = st.flagged_fhrs
    /\ UNCHANGED <<pc, args, track_one, track_two, diff, diff_src,
                   added_dates, raised, det, handles>>

\* end of file: `return cycle_track'
GfdlReturn ==
    /\ pc = "gfdl"
    /\ det.path = "file" => lines # <<>>
    /\ pc' = "gfdl_returned"
    /\ handles' = ExitWith(handles)
    /\ UNCHANGED <<args, lines, track, processed_fhrs, flagged_fhrs,
                   track_one, track_two, diff, diff_src,
                   added_dates, raised, det>>

\* trackOne is read from a Diapost file
ParseTrackOne ==
    /\ pc = "idle"
    /\ \E file \in SeqsUpTo(DiffLines, MaxDiffLines), a \in DiffParseArgs :
          track_one' = get_diapost_track_data(file, a)
    /\ pc' = "one"
    /\ UNCHANGED <<args, lines, track, processed_fhrs, flagged_fhrs,
                   track_two, diff, diff_src,
                   added_dates, raised, det, handles>>

\* trackTwo is read from a Diapost file
ParseTrackTwo ==
    /\ pc = "one"
    /\ \E file \in SeqsUpTo(DiffLines, MaxDiffLines) \cup DiffLongFiles,
          a \in DiffParseArgs :
          track_two' = get_diapost_track_data(file, a)
    /\ pc' = "two"
    /\ UNCHANGED <<args, lines, track, processed_fhrs, flagged_fhrs,
                   track_one, diff, diff_src,
                   added_dates, raised, det, handles>>

\* ForecastTrackDiff(trackOne, trackTwo, ...) is constructed
ConstructDiff ==
    /\ pc = "two"
    /\ \E o \in DiffOptions :
          /\ diff' = ForecastTrackDiff(track_one, track_two, o)
          /\ diff_src' = get_track_diffs(track_one, track_two, o).src
    /\ pc' = "diffed"
    /\ UNCHANGED <<args, lines, track, processed_fhrs, flagged_fhrs,
                   track_one, track_two, added_dates, raised, det, handles>>

\* after the construction the caller appends an observation to the Track it
\* passed as trackOne
SourceAppendEntry ==
    /\ pc = "diffed"
    /\ diff.status = "ok"
    /\ \E e \in SourceEntries :
          track_one' = append_entry(track_one, e)
    /\ pc' = "source_changed"
    /\ UNCHANGED <<args, lines, track, processed_fhrs, flagged_fhrs,
                   track_two, diff, diff_src, added_dates, raised, det,
                   handles>>

\* get_bdeck_track_data is called: names built, file opened, track created
BdeckCall ==
    /\ pc = "idle"
    /\ \E a \in BdeckArgs :
          /\ args' = a
          /\ raised' = BdeckEntryError(a)
          /\ pc' = IF BdeckEntryError(a) = "" THEN "bdeck" ELSE "bdeck_raised"
          /\ track' = IF BdeckEntryError(a) = "" THEN BdeckStart(a).track ELSE track
    /\ lines' = <<>>
    /\ added_dates' = <<>>
    /\ handles' = handles \cup BdeckOpens(args')
    /\ UNCHANGED <<processed_fhrs, flagged_fhrs, track_one, track_two, diff, diff_src, det>>

\* the loop takes the next line of the file
BdeckReadLine ==
    /\ pc = "bdeck"
    /\ Len(lines) < MaxLines
    /\ \E line \in BdeckLines :
          LET st == BdeckStep([track |-> track, added_dates |-> added_dates,
                               status |-> ""], line, Val(args.startDate))
          IN  /\ lines' = Append(lines, line)
              /\ track' = st.track
              /\ added_dates' = st.added_dates
              /\ raised' = st.status
              /\ pc' = IF st.status = "" THEN "bdeck" ELSE "bdeck_raised"
    /\ handles' = IF pc' = "bdeck" THEN handles ELSE ExitWith(handles)
    /\ UNCHANGED <<args, processed_fhrs, flagged_fhrs,
                   track_one, track_two, diff, diff_src, det>>

\* end of file: `return fcst_track'
BdeckReturn ==
    /\ pc = "bdeck"
    /\ pc' = "bdeck_returned"
    /\ handles' = ExitWith(handles)
    /\ UNCHANGED <<args, lines, track, processed_fhrs, flagged_fhrs,
                   track_one, track_two, diff, diff_src, added_dates, raised, det>>

\* get_track_data is called
GetTrackDataCall ==
    /\ pc = "idle"
    /\ \E d \in DetectCalls :
          det' = [path |-> d.path, ntoks |-> d.ntoks, stormID |-> d.stormID,
                  startDate |-> d.startDate, opened |-> FALSE, called |-> <<>>]
    /\ pc' = "get_track_data"
    /\ UNCHANGED <<args, lines, track, processed_fhrs, flagged_fhrs,
                   track_one, track_two, diff, diff_src, added_dates, raised,
                   handles>>

\* what get_track_data has done when it raises or calls a parser
Detected ==
    [det EXCEPT !.opened = get_track_data(det).opened,
                !.called = get_track_data(det).called]

\* get_track_data raises
GetTrackDataRaises ==
    /\ pc = "get_track_data"
    /\ get_track_data(det).raised # ""
    /\ det' = Detected
    /\ raised' = get_track_data(det).raised
    /\ pc' = "get_track_data_raised"
    /\ handles' = ExitWith(handles \cup DetectOpens(det))
    /\ UNCHANGED <<args, lines, track, processed_fhrs, flagged_fhrs,
                   track_one, track_two, diff, diff_src, added_dates>>

\* `return get_bdeck_track_data(atcfPath, stormID, startDate)'
GetTrackDataBdeck ==
    /\ pc = "get_track_data"
    /\ get_track_data(det).called = <<"get_bdeck_track_data">>
    /\ det' = Detected
    /\ LET a == [stormID |-> det.stormID, startDate |-> det.startDate]
       IN  /\ args' = a
           /\ raised' = BdeckEntryError(a)
           /\ pc' = IF BdeckEntryError(a) = "" THEN "bdeck" ELSE "bdeck_raised"
           /\ track' = IF BdeckEntryError(a) = "" THEN BdeckStart(a).track ELSE track
    /\ lines' = <<>>
    /\ added_dates' = <<>>
    /\ handles' = handles \cup DetectOpens(det) \cup BdeckOpens(args')
    /\ UNCHANGED <<processed_fhrs, flagged_fhrs, track_one, track_two, diff, diff_src>>

\* `return get_gfdltrk_track_data(atcfPath)'
GetTrackDataGfdl ==
    /\ pc = "get_track_data"
    /\ get_track_data(det).called = <<"get_gfdltrk_track_data">>
    /\ det' = Detected
    /\ args' = GfdlDefaults
    /\ track' = GfdlStart(GfdlDefaults).track
    /\ processed_fhrs' = GfdlStart(GfdlDefaults).processed_fhrs
    /\ flagged_fhrs' = GfdlStart(GfdlDefaults).flagged_fhrs
    /\ lines' = <<>>
    /\ pc' = "gfdl"
    /\ handles' = handles \cup DetectOpens(det) \cup GfdlOpens(GfdlDefaults)
    /\ UNCHANGED <<track_one, track_two, diff, diff_src, added_dates, raised>>

\* `return get_diapost_track_data(atcfPath)'
GetTrackDataDiapost ==
    /\ pc = "get_track_data"
    /\ get_track_data(det).called = <<"get_diapost_track_data">>
    /\ det' = Detected
    /\ args' = DiapostDefaults
    /\ track' = ForecastTrack(-1)
    /\ lines' = <<>>
    /\ pc' = "diapost"
    /\ handles' = handles \cup DetectOpens(det) \cup {"elfile"}
    /\ UNCHANGED <<processed_fhrs, flagged_fhrs, track_one, track_two, diff, diff_src,
                   added_dates, raised>>

\* `return get_nolan_track_data(atcfPath)'
GetTrackDataNolan ==
    /\ pc = "get_track_data"
    /\ get_track_data(det).called = <<"get_nolan_track_data">>
    /\ det' = Detected
    /\ pc' = "nolan"
    /\ handles' = handles \cup DetectOpens(det) \cup {"trk_file"}
    /\ UNCHANGED <<args, lines, track, processed_fhrs, flagged_fhrs,
                   track_one, track_two, diff, diff_src, added_dates, raised>>

\* `return get_geos5trk_track_data(atcfPath)'
GetTrackDataGeos5 ==
    /\ pc = "get_track_data"
    /\ get_track_data(det).called = <<"get_geos5trk_track_data">>
    /\ det' = Detected
    /\ pc' = "geos5"
    /\ handles' = handles \cup DetectOpens(det) \cup {"trk_file"}
    /\ UNCHANGED <<args, lines, track, processed_fhrs, flagged_fhrs,
                   track_one, track_two, diff, diff_src, added_dates, raised>>

\* get_nolan_track_data is called: the file is opened
NolanCall ==
    /\ pc = "idle"
    /\ lines' = <<>>
    /\ pc' = "nolan"
    /\ handles' = handles \cup {"trk_file"}
    /\ UNCHANGED <<args, track, processed_fhrs, flagged_fhrs, track_one, track_two,
                   diff, diff_src, added_dates, raised, det>>

\* the loop takes the next line of the file; the first line gives startDate
\* and the track
NolanReadLine ==
    /\ pc = "nolan"
    /\ Len(lines) < MaxLines
    /\ \E line \in NolanLines :
          \* the first line is the one get_track_data counted the tokens of
          /\ (det.path = "file" /\ lines = <<>>) => line.ntoks = det.ntoks
          /\ lines' = Append(lines, line)
          /\ raised' = NolanRaises(line)
          /\ LET trk == IF lines = <<>> THEN NolanStart(line) ELSE track
             IN  IF NolanRaises(line) = ""
                 THEN track' = NolanStep(trk, line) /\ pc' = "nolan"
                 ELSE track' = trk /\ pc' = "nolan_raised"
    /\ handles' = IF pc' = "nolan" THEN handles ELSE ExitWith(handles)
    /\ UNCHANGED <<args, processed_fhrs, flagged_fhrs, track_one, track_two,
                   diff, diff_src, added_dates, det>>

\* end of file: `return fcst_track', or IndexError on `lines[0]' when the
\* file has no line
NolanReturn ==
    /\ pc = "nolan"
    /\ det.path = "file" => lines # <<>>
    /\ pc' = IF lines = <<>> THEN "nolan_raised" ELSE "nolan_returned"
    /\ raised' = IF lines = <<>> THEN "IndexError" ELSE raised
    /\ handles' = ExitWith(handles)
    /\ UNCHANGED <<args, lines, track, processed_fhrs, flagged_fhrs, track_one,
                   track_two, diff, diff_src, added_dates, det>>

\* get_geos5trk_track_data is called: the file is opened
Geos5Call ==
    /\ pc = "idle"
    /\ lines' = <<>>
    /\ pc' = "geos5"
    /\ handles' = handles \cup {"trk_file"}
    /\ UNCHANGED <<args, track, processed_fhrs, flagged_fhrs, track_one, track_two,
                   diff, diff_src, added_dates, raised, det>>

\* the loop takes the next line of the file; the first line gives start_date
\* and the track
Geos5ReadLine ==
    /\ pc = "geos5"
    /\ Len(lines) < MaxLines
    /\ \E line \in Geos5Lines :
          \* the first line is the one get_track_data counted the tokens of
          /\ (det.path = "file" /\ lines = <<>>) => line.ntoks = det.ntoks
          /\ lines' = Append(lines, line)
          /\ raised' = Geos5Raises(line)
          /\ LET first == IF lines = <<>> THEN line ELSE lines[1]
                 trk == IF lines = <<>> THEN Geos5Start(line) ELSE track
             IN  IF Geos5Raises(line) = ""
                 THEN /\ track' = Geos5Step(trk, line, dtime_for_line(first))
                      /\ pc' = "geos5"
                 ELSE track' = trk /\ pc' = "geos5_raised"
    /\ handles' = IF pc' = "geos5" THEN handles ELSE ExitWith(handles)
    /\ UNCHANGED <<args, processed_fhrs, flagged_fhrs, track_one, track_two,
                   diff, diff_src, added_dates, det>>

\* end of file: `return fcst_track', or IndexError on `lines[0]' when the
\* file has no line
Geos5Return ==
    /\ pc = "geos5"
    /\ det.path = "file" => lines # <<>>
    /\ pc' = IF lines = <<>> THEN "geos5_raised" ELSE "geos5_returned"
    /\ raised' = IF lines = <<>> THEN "IndexError" ELSE raised
    /\ handles' = ExitWith(handles)
    /\ UNCHANGED <<args, lines, track, processed_fhrs, flagged_fhrs, track_one,
                   track_two, diff, diff_src, added_dates, det>>

\* positions at which the call has ended, by return or by exception
Ended ==
    {"diapost_returned", "diapost_raised", "gfdl_returned", "bdeck_returned",
     "bdeck_raised", "nolan_returned", "nolan_raised", "geos5_returned",
     "geos5_raised", "get_track_data_raised"}

\* the runtime finalises the file objects the ended call left unreferenced,
\* which closes them; when it does so is up to the interpreter
Finalize ==
    /\ pc \in Ended
    /\ handles # {}
    /\ handles' = {}
    /\ UNCHANGED <<pc, args, lines, track, processed_fhrs, flagged_fhrs,
                   track_one, track_two, diff, diff_src, added_dates, raised, det>>

NextDiapost == DiapostCall \/ DiapostReadLine \/ DiapostReturn
NextGfdl == GfdlCall \/ GfdlReadLine \/ GfdlReturn
NextDiff == ParseTrackOne \/ ParseTrackTwo \/ ConstructDiff
NextDiffHeld == NextDiff \/ SourceAppendEntry
NextBdeck == BdeckCall \/ BdeckReadLine \/ BdeckReturn
NextDetect ==
    \/ GetTrackDataCall \/ GetTrackDataRaises \/ GetTrackDataBdeck
    \/ GetTrackDataGfdl \/ GetTrackDataDiapost \/ GetTrackDataNolan
    \/ GetTrackDataGeos5
    \/ DiapostReadLine \/ DiapostReturn \/ GfdlReadLine \/ GfdlReturn
    \/ BdeckReadLine \/ BdeckReturn
    \/ NolanReadLine \/ NolanReturn \/ Geos5ReadLine \/ Geos5Return
NextNolan == NolanCall \/ NolanReadLine \/ NolanReturn
NextGeos5 == Geos5Call \/ Geos5ReadLine \/ Geos5Return
NextHandles ==
    \/ NextDiapost \/ NextGfdl \/ NextBdeck \/ NextNolan \/ NextGeos5
    \/ NextDetect \/ Finalize
Next ==
    \/ NextDiapost \/ NextGfdl \/ NextDiff \/ NextBdeck \/ NextDetect
    \/ NextNolan \/ NextGeos5 \/ SourceAppendEntry \/ Finalize

SpecDiapost == Init /\ [][NextDiapost]_vars
SpecGfdl == Init /\ [][NextGfdl]_vars
SpecDiff == Init /\ [][NextDiff]_vars
SpecParsers == Init /\ [][NextDiapost \/ NextGfdl]_vars
SpecDiffHeld == Init /\ [][NextDiffHeld]_vars
SpecHandles == Init /\ [][NextHandles]_vars
SpecBdeck == Init /\ [][NextBdeck]_vars
SpecDetect == Init /\ [][NextDetect]_vars
SpecNolan == Init /\ [][NextNolan]_vars
SpecGeos5 == Init /\ [][NextGeos5]_vars
Spec == Init /\ [][Next]_vars

-----------------------------------------------------------------------------
(* Properties of the differencer (SpecDiff) *)

RECURSIVE Ascending(_)
\* the elements of a finite set of integers, in increasing order
Ascending(S) ==
    IF S = {} THEN <<>>
    ELSE LET m == CHOOSE x \in S : \A y \in S : x <= y
         IN  <<m>> \o Ascending(S \ {m})

Diffed == pc = "diffed"
OneEntries == track_one.tracker_entries
TwoEntries == track_two.tracker_entries
DiffEntries == diff.tracker_entries

\* the options the diff was constructed with
DiffOpts ==
    [absoluteTimeDiff |-> diff.absolute_time_difference,
     operator         |-> diff.operator,
     include_flagged  |-> diff.include_flagged,
     absolute         |-> diff.absolute]

\* the trackTwo entry the code aligned with trackOne's entry i
AlignedTwo(i) == absolute_times_dict(track_two)[get_fhr_epoch(OneEntries[i])]

\* C1: a track differenced against itself (absolute-time alignment, default
\* operator) gives a diff whose every entry has mslp_error = 0,
\* maxwind_error = 0 and track_error = 0.
C1_SelfDiffAllZero ==
    (Diffed /\ track_one = track_two /\ diff.absolute_time_difference
        /\ diff.operator = "sub")
    => /\ diff.status = "ok"
       /\ \A k \in 1..Len(DiffEntries) :
             /\ DiffEntries[k].mslp_error = 0
             /\ DiffEntries[k].maxwind_error = 0
             /\ DiffEntries[k].track_error = 0

\* C2: with absoluteTimeDiff = False the construction completes and the diff
\* holds one entry per trackOne observation whose forecast hour is also
\* present in trackTwo, whatever the two reference epochs are.
C2_LeadTimeAlignmentCompletes ==
    (Diffed /\ ~diff.absolute_time_difference /\ diff.include_flagged)
    => /\ diff.status = "ok"
       /\ Len(DiffEntries) =
             Cardinality({i \in 1..Len(OneEntries) :
                            \E j \in 1..Len(TwoEntries) :
                               TwoEntries[j].fhr = OneEntries[i].fhr})

\* C3: with absolute-time alignment and include_flagged = True the diff holds,
\* in trackOne's order, exactly one entry for each trackOne observation for
\* which trackTwo holds an observation at the same absolute time (reference
\* epoch + fhr*3600), with that observation's fhr; nothing is raised.
C3_OneEntryPerAlignedObservation ==
    (Diffed /\ diff.absolute_time_difference /\ diff.include_flagged)
    => /\ diff.status = "ok"
       /\ diff_src =
             Ascending({i \in 1..Len(OneEntries) :
                          \E j \in 1..Len(TwoEntries) :
                             get_fhr_epoch(TwoEntries[j]) = get_fhr_epoch(OneEntries[i])})
       /\ Len(DiffEntries) = Len(diff_src)
       /\ \A k \in 1..Len(DiffEntries) :
             DiffEntries[k].fhr = OneEntries[diff_src[k]].fhr

\* C4: every diff entry's flagged is (trackOne observation flagged) OR
\* (aligned trackTwo observation flagged); with include_flagged = False no
\* pair with a flagged observation gives an entry, so every entry is unflagged.
C4_FlaggedIsOr ==
    (Diffed /\ diff.status = "ok")
    => /\ Len(diff_src) = Len(DiffEntries)
       /\ \A k \in 1..Len(DiffEntries) :
             /\ DiffEntries[k].flagged =
                   (OneEntries[diff_src[k]].flagged \/ AlignedTwo(diff_src[k]).flagged)
             /\ ~diff.include_flagged =>
                   /\ ~DiffEntries[k].flagged
                   /\ ~OneEntries[diff_src[k]].flagged
                   /\ ~AlignedTwo(diff_src[k]).flagged

\* an entry flagged only because the trackTwo observation is, and, under the
\* other setting, a diff that dropped a flagged pair
C4_Witness ==
    /\ Diffed /\ diff.status = "ok" /\ diff.include_flagged
    /\ \E k \in 1..Len(DiffEntries) :
          /\ DiffEntries[k].flagged
          /\ ~OneEntries[diff_src[k]].flagged
          /\ AlignedTwo(diff_src[k]).flagged
    /\ \E k \in 1..Len(DiffEntries) : ~DiffEntries[k].flagged

\* the diff of the two tracks taken the other way round, same options
Reverse == get_track_diffs(track_two, track_one, DiffOpts)

\* C5: with the default operator and absolute = False each entry holds
\* trackOne minus trackTwo for pressure and wind, and at every timestamp
\* present in both diff(A, B) and diff(B, A) the two hold errors of equal
\* magnitude and opposite sign.
C5_SignedAndAntisymmetric ==
    (Diffed /\ diff.status = "ok" /\ diff.operator = "sub" /\ ~diff.absolute)
    => /\ \A k \in 1..Len(DiffEntries) :
             /\ DiffEntries[k].mslp_error =
                   OneEntries[diff_src[k]].mslp_value
                     - AlignedTwo(diff_src[k]).mslp_value
             /\ DiffEntries[k].maxwind_error =
                   OneEntries[diff_src[k]].maxwind_value
                     - AlignedTwo(diff_src[k]).maxwind_value
       /\ \A k \in 1..Len(DiffEntries), l \in 1..Len(Reverse.tracker_entries) :
             get_fhr_epoch(OneEntries[diff_src[k]])
                = get_fhr_epoch(TwoEntries[Reverse.src[l]])
             => /\ DiffEntries[k].mslp_error = -Reverse.tracker_entries[l].mslp_error
                /\ DiffEntries[k].maxwind_error
                     = -Reverse.tracker_entries[l].maxwind_error

\* the same construction with absolute = False
Plain == get_track_diffs(track_one, track_two, [DiffOpts EXCEPT !.absolute = FALSE])

\* C6: with absolute = True every entry has mslp_error >= 0 and
\* maxwind_error >= 0, each the absolute value of the operator's result, and
\* the entries come from the same timestamps, with the same track_error, as
\* with absolute = False.
C6_AbsoluteErrors ==
    (Diffed /\ diff.status = "ok" /\ diff.absolute)
    => /\ diff_src = Plain.src
       /\ Len(DiffEntries) = Len(Plain.tracker_entries)
       /\ \A k \in 1..Len(DiffEntries) :
             LET a == OneEntries[diff_src[k]]
                 b == AlignedTwo(diff_src[k])
             IN  /\ DiffEntries[k].mslp_error >= 0
                 /\ DiffEntries[k].maxwind_error >= 0
                 /\ DiffEntries[k].mslp_error =
                       Abs(ApplyOperator(diff.operator, a.mslp_value, b.mslp_value))
                 /\ DiffEntries[k].maxwind_error =
                       Abs(ApplyOperator(diff.operator, a.maxwind_value,
                                         b.maxwind_value))
                 /\ DiffEntries[k].track_error = Plain.tracker_entries[k].track_error
                 /\ DiffEntries[k].fhr = Plain.tracker_entries[k].fhr

\* absolute = True where the operator's results are negative and the two
\* positions differ
C6_Witness ==
    /\ Diffed /\ diff.status = "ok" /\ diff.absolute
    /\ \E k \in 1..Len(DiffEntries) :
          /\ Plain.tracker_entries[k].mslp_error < 0
          /\ DiffEntries[k].mslp_error > 0
          /\ DiffEntries[k].track_error > 0
    /\ \E k \in 1..Len(DiffEntries) :
          /\ Plain.tracker_entries[k].maxwind_error < 0
          /\ DiffEntries[k].maxwind_error > 0

-----------------------------------------------------------------------------
(* Properties of the Diapost parser (SpecDiapost) *)

InDiapost == pc \in {"diapost", "diapost_returned"}
Entries == track.tracker_entries

\* no duration cap, no bounding box, no land filter
DiapostDefaultFilters ==
    /\ IsNone(args.duration)
    /\ IsNone(args.nswe_thresh)
    /\ ~args.skip_land_points

\* C7: without duration cap, bounding box and land filter, the track holds,
\* in file order, one Observation per 8-token line whose flag token is 0, with
\* flagged = False; an 8-token line whose flag token is not 0 gives no
\* Observation by default and one with flagged = True under
\* include_flagged_entries = True.
C7_DiapostFlagToken ==
    (InDiapost /\ DiapostDefaultFilters)
    => LET kept == Ascending({i \in 1..Len(lines) :
                                /\ lines[i].ntoks = 8
                                /\ (lines[i].flag = 0 \/ args.include_flagged_entries)})
       IN  /\ Len(Entries) = Len(kept)
           /\ \A k \in 1..Len(Entries) :
                 /\ Entries[k].flagged = (lines[kept[k]].flag # 0)
                 /\ ~args.include_flagged_entries => ~Entries[k].flagged
                 /\ Entries[k].fhr = lines[kept[k]].fhr
                 /\ Entries[k].start_date = yyyymmddHH_to_epoch(lines[kept[k]].date)
                 /\ Entries[k].lat = lines[kept[k]].lat
                 /\ Entries[k].lon = lines[kept[k]].lon
                 /\ Entries[k].mslp_value = lines[kept[k]].mslp
                 /\ Entries[k].maxwind_value = lines[kept[k]].wind

\* a default parse of a file with a flag-0 line, a flag-1 line and a flag-2
\* line returned the one Observation
C7_Witness ==
    /\ pc = "diapost_returned" /\ DiapostDefaultFilters
    /\ ~args.include_flagged_entries
    /\ \A g \in 0..2 : \E i \in 1..Len(lines) :
          lines[i].ntoks = 8 /\ lines[i].flag = g
    /\ Len(Entries) = 1 /\ ~Entries[1].flagged

-----------------------------------------------------------------------------
(* Properties of the GFDL parser (SpecGfdl) *)

InGfdl == pc \in {"gfdl", "gfdl_returned"}

\* line i has 20 or 43 comma tokens
Recognised(i) == lines[i].ntoks \in {20, 43}

\* line i is the first recognised line of the file with its forecast hour
FirstOfHour(i) ==
    /\ Recognised(i)
    /\ \A j \in 1..(i - 1) : Recognised(j) => GfdlFhr(lines[j]) # GfdlFhr(lines[i])

\* line i gets past the duplicate-hour and the duration checks
Parsed(i) == FirstOfHour(i) /\ ~AfterDuration(GfdlFhr(lines[i]), args.duration)

\* entry e carries the values of line l
CarriesValuesOf(e, l) ==
    /\ e.start_date = yyyymmddHH_to_epoch(l.date)
    /\ IF l.lat = ZeroTok
       THEN e.lat = 0 /\ e.lon = 0 /\ e.mslp_value = 0 /\ e.maxwind_value = 0
       ELSE /\ e.lat = (IF l.lat[2] = "S" THEN -(l.lat[1] \div 10) ELSE l.lat[1] \div 10)
            /\ e.lon = (IF l.lon[2] = "W" THEN -(l.lon[1] \div 10) ELSE l.lon[1] \div 10)
            /\ e.mslp_value = l.mslp
            /\ e.maxwind_value = l.wind

\* C8: the track holds at most one Observation per forecast hour, and the
\* Observation for hour h carries the values of the first recognised line of
\* the file whose forecast hour is h.
C8_FirstOccurrenceWins ==
    InGfdl
    => /\ \A k, l \in 1..Len(Entries) : Entries[k].fhr = Entries[l].fhr => k = l
       /\ \A k \in 1..Len(Entries) :
             \E i \in 1..Len(lines) :
                /\ FirstOfHour(i)
                /\ GfdlFhr(lines[i]) = Entries[k].fhr
                /\ CarriesValuesOf(Entries[k], lines[i])

\* a file with three recognised lines of one forecast hour and different
\* values returned a track with the one Observation
C8_Witness ==
    /\ pc = "gfdl_returned"
    /\ Len(lines) = 3
    /\ \A i \in 1..3 : Recognised(i) /\ GfdlFhr(lines[i]) = 1
    /\ lines[1].mslp # lines[2].mslp /\ lines[1].lat # ZeroTok
    /\ lines[2].mslp # lines[3].mslp
    /\ Len(Entries) = 1

\* C9: a parsed line whose latitude token is '0' gives, under
\* include_flagged_entries = True, an Observation with flagged = True and
\* lat = lon = mslp = maxwind = 0, and under include_flagged_entries = False
\* no Observation.
C9_ZeroLatitudeFlagged ==
    InGfdl
    => \A i \in 1..Len(lines) :
          (Parsed(i) /\ lines[i].lat = ZeroTok)
          => IF args.include_flagged_entries
             THEN \E k \in 1..Len(Entries) :
                     /\ Entries[k].fhr = GfdlFhr(lines[i])
                     /\ Entries[k].flagged
                     /\ Entries[k].lat = 0 /\ Entries[k].lon = 0
                     /\ Entries[k].mslp_value = 0 /\ Entries[k].maxwind_value = 0
             ELSE \A k \in 1..Len(Entries) : Entries[k].fhr # GfdlFhr(lines[i])

\* a '0'-latitude line with non-zero pressure and wind tokens was parsed
\* under include_flagged_entries = True, with no side-file
C9_Witness ==
    /\ pc = "gfdl_returned"
    /\ args.include_flagged_entries /\ IsNone(args.flagged_entries_file)
    /\ \E i \in 1..Len(lines) :
          /\ Parsed(i) /\ lines[i].lat = ZeroTok
          /\ lines[i].mslp # 0 /\ lines[i].wind # 0
          /\ \E k \in 1..Len(Entries) :
                Entries[k].fhr = GfdlFhr(lines[i]) /\ Entries[k].flagged

\* the forecast hours listed in the side-file
SideFileHours ==
    IF IsNone(args.flagged_entries_file) THEN {}
    ELSE {Val(args.flagged_entries_file)[j] :
            j \in 1..Len(Val(args.flagged_entries_file))}

\* C10: a parsed record whose forecast hour is listed in the side-file is
\* force-flagged under either setting: dropped when include_flagged_entries
\* is False, included with flagged = True when it is True (the land filter
\* apart).
C10_SideFileForcesFlag ==
    (InGfdl /\ ~args.skip_land_points)
    => \A i \in 1..Len(lines) :
          (Parsed(i) /\ GfdlFhr(lines[i]) \in SideFileHours)
          => IF args.include_flagged_entries
             THEN \E k \in 1..Len(Entries) :
                     Entries[k].fhr = GfdlFhr(lines[i]) /\ Entries[k].flagged
             ELSE \A k \in 1..Len(Entries) : Entries[k].fhr # GfdlFhr(lines[i])

\* the forecast hour line i stands for: the raw token of a 43-token line, the
\* raw token divided by 100 (Python 2 integer division) of a 20-token line
HourOf(i) == IF lines[i].ntoks = 20 THEN lines[i].fhr \div 100 ELSE lines[i].fhr

\* line i is the first recognised line of its (divided) hour, and that hour
\* lies within the duration
PassesHourChecks(i) ==
    /\ Recognised(i)
    /\ \A j \in 1..(i - 1) : Recognised(j) => HourOf(j) # HourOf(i)
    /\ IsNone(args.duration) \/ HourOf(i) * 3600 <= Val(args.duration)

\* C11: a 20-token (fort.69) line with raw forecast-hour token r gives an
\* Observation with fhr = r / 100 and a 43-token line one with fhr = r; the
\* duplicate-hour and the duration checks work on the hour after the
\* division: processed_fhrs lists the divided hours of the lines that passed
\* both, and every Observation comes from such a line.
C11_Fort69HourDivided ==
    InGfdl
    => LET passed == Ascending({i \in 1..Len(lines) : PassesHourChecks(i)})
       IN  /\ Len(processed_fhrs) = Len(passed)
           /\ \A j \in 1..Len(passed) : processed_fhrs[j] = HourOf(passed[j])
           /\ \A k \in 1..Len(Entries) :
                 \E j \in 1..Len(passed) :
                    /\ Entries[k].fhr = HourOf(passed[j])
                    /\ CarriesValuesOf(Entries[k], lines[passed[j]])
           /\ (args.include_flagged_entries /\ ~args.skip_land_points)
              => /\ Len(Entries) = Len(passed)
                 /\ \A k \in 1..Len(Entries) : Entries[k].fhr = HourOf(passed[k])

\* a fort.69 file with the raw hours 100, 150 and 200 was parsed with a
\* duration of one hour: the one Observation has fhr = 1
C11_Witness ==
    /\ pc = "gfdl_returned"
    /\ args.duration = Some(3600)
    /\ Len(lines) = 3
    /\ \A i \in 1..3 : lines[i].ntoks = 20 /\ lines[i].lat # ZeroTok
    /\ lines[1].fhr = 100 /\ lines[2].fhr = 150 /\ lines[3].fhr = 200
    /\ Len(Entries) = 1 /\ Entries[1].fhr = 1

\* the forecast hours for which a '0'-latitude line has been parsed
ZeroLatitudeHours ==
    {GfdlFhr(lines[i]) : i \in {j \in 1..Len(lines) :
                                  Parsed(j) /\ lines[j].lat = ZeroTok}}

\* C12: from the line on that was parsed with the latitude token '0' for hour
\* h, and at every later point of the file, h is in flagged_fhrs and the
\* track holds no unflagged Observation with forecast hour h, whatever lines
\* with hour h follow.
C12_ZeroLatitudeHourStaysFlagged ==
    InGfdl
    => \A h \in ZeroLatitudeHours :
          /\ InFlaggedFhrs(h, flagged_fhrs)
          /\ \A k \in 1..Len(Entries) : Entries[k].fhr = h => Entries[k].flagged

\* a '0'-latitude line for hour 1 was followed by two well-formed lines for
\* hour 1, under include_flagged_entries = True: the file gave the one
\* flagged Observation
C12_Witness ==
    /\ pc = "gfdl_returned"
    /\ args.include_flagged_entries /\ ~args.skip_land_points
    /\ Len(lines) = 3
    /\ Parsed(1) /\ lines[1].lat = ZeroTok /\ GfdlFhr(lines[1]) = 1
    /\ \A i \in 2..3 : Recognised(i) /\ GfdlFhr(lines[i]) = 1 /\ lines[i].lat # ZeroTok
    /\ Len(Entries) = 1 /\ Entries[1].flagged

-----------------------------------------------------------------------------
(* Properties of the b-deck parser (SpecBdeck) *)

InBdeck == pc \in {"bdeck", "bdeck_returned"}

\* the record date of line i, in epoch seconds
RecordDate(i) == yyyymmddHH_to_epoch(lines[i].date)

\* C13: the track holds exactly one Observation per record date that is not
\* earlier than startDate, taken from the first line of the file with that
\* date; a line dated before startDate gives none; every Observation has
\* fhr = (recordDate - startDate) / 3600, which is >= 0.
C13_BdeckOnePerDate ==
    InBdeck
    => LET startDate == Val(args.startDate)
           kept == Ascending({i \in 1..Len(lines) :
                                /\ RecordDate(i) >= startDate
                                /\ \A j \in 1..(i - 1) : RecordDate(j) # RecordDate(i)})
       IN  /\ Len(Entries) = Len(kept)
           /\ \A k, l \in 1..Len(Entries) :
                 Entries[k].fcst_date = Entries[l].fcst_date => k = l
           /\ \A k \in 1..Len(Entries) :
                 /\ Entries[k].fhr * 3600 = RecordDate(kept[k]) - startDate
                 /\ Entries[k].fhr >= 0
                 /\ Entries[k].fcst_date = RecordDate(kept[k])
                 /\ Entries[k].start_date = startDate
                 /\ Entries[k].mslp_value = lines[kept[k]].mslp
                 /\ Entries[k].maxwind_value = lines[kept[k]].wind

\* with startDate at hour 1, a file with a record for hour 0 and two
\* different records for hour 1 returned the one Observation, of the first
\* record for hour 1
C13_Witness ==
    /\ pc = "bdeck_returned"
    /\ args.startDate = Some(3600)
    /\ Len(lines) = 3
    /\ lines[1].date = <<0, 0>>
    /\ lines[2].date = <<0, 1>> /\ lines[3].date = <<0, 1>>
    /\ lines[2].mslp # lines[3].mslp
    /\ Len(Entries) = 1
    /\ Entries[1].fhr = 0 /\ Entries[1].mslp_value = lines[2].mslp

\* every line read so far has its tokens in place and hemisphere letters
BdeckLinesWellFormed ==
    \A i \in 1..Len(lines) :
       /\ lines[i].ntoks = 20
       /\ lines[i].lat[2] \in {"N", "S"} /\ lines[i].lon[2] \in {"W", "E"}

\* C14: a line whose track-type token is not "BEST" is rejected and the
\* parse continues: once the file is open, the call does not raise on a file
\* of well-formed lines.
C14_NonBestRejected ==
    (/\ pc \in {"bdeck", "bdeck_returned", "bdeck_raised"}
     /\ BdeckEntryError(args) = ""
     /\ BdeckLinesWellFormed)
    => pc # "bdeck_raised"

-----------------------------------------------------------------------------
(* Properties of get_track_data (SpecDetect) *)

\* get_track_data has raised or has called a parser
Dispatched == pc \notin {"idle", "get_track_data"} /\ det.path # "none"

\* C15: on a regular file, get_track_data dispatches on the number n of
\* whitespace tokens of the first line alone: 13 calls the Nolan parser, 20
\* and 43 the GFDL parser, 8 the Diapost parser, 16 the GEOS5 parser, and no
\* other parser is called beside it; for n outside {8, 13, 16, 19, 20, 30, 43}
\* it raises and calls no parser.
C15_DispatchOnTokenCount ==
    (Dispatched /\ det.path = "file")
    => LET n == det.ntoks
       IN  /\ n = 13 => /\ det.called = <<"get_nolan_track_data">>
                        /\ pc \in {"nolan", "nolan_returned", "nolan_raised"}
           /\ n \in {20, 43} => /\ det.called = <<"get_gfdltrk_track_data">>
                                /\ pc \in {"gfdl", "gfdl_returned"}
           /\ n = 8 => /\ det.called = <<"get_diapost_track_data">>
                       /\ pc \in {"diapost", "diapost_returned", "diapost_raised"}
           /\ n = 16 => /\ det.called = <<"get_geos5trk_track_data">>
                        /\ pc \in {"geos5", "geos5_returned", "geos5_raised"}
           /\ n \notin {8, 13, 16, 19, 20, 30, 43}
              => /\ det.called = <<>>
                 /\ pc = "get_track_data_raised" /\ raised = "Exception"

\* a file whose first line has 8 tokens went to the Diapost parser, which
\* returned a track with an Observation
C15_Witness ==
    /\ det.path = "file" /\ det.ntoks = 8
    /\ det.called = <<"get_diapost_track_data">>
    /\ pc = "diapost_returned"
    /\ Len(Entries) > 0

\* C16: on a first line of 19 or 30 tokens, get_track_data raises before any
\* parsing when stormID or startDate is missing; with both given it calls
\* the SYNDAT parser and does not raise.
C16_SyndatNeedsStormAndDate ==
    (Dispatched /\ det.path = "file" /\ det.ntoks \in {19, 30})
    => IF IsNone(det.stormID) \/ IsNone(det.startDate)
       THEN det.called = <<>> /\ pc = "get_track_data_raised" /\ raised = "Exception"
       ELSE det.called = <<"get_syndat_track_data">> /\ raised = ""

\* C17: a path that does not exist makes get_track_data raise with no file
\* opened and no parser called; a directory goes to the b-deck parser with
\* the stormID and startDate of the call, and no first line is read.
C17_PathCheckedFirst ==
    Dispatched
    => /\ det.path = "missing"
          => /\ pc = "get_track_data_raised" /\ raised = "Exception"
             /\ ~det.opened /\ det.called = <<>>
       /\ det.path = "dir"
          => /\ det.called = <<"get_bdeck_track_data">>
             /\ ~det.opened
             /\ pc \in {"bdeck", "bdeck_returned", "bdeck_raised"}
             /\ args = [stormID |-> det.stormID, startDate |-> det.startDate]

\* a directory, a stormID and a startDate were given: the b-deck parser
\* returned a track with an Observation
C17_Witness ==
    /\ det.path = "dir" /\ det.called = <<"get_bdeck_track_data">>
    /\ ~IsNone(det.stormID) /\ ~IsNone(det.startDate)
    /\ pc = "bdeck_returned"
    /\ Len(Entries) > 0

-----------------------------------------------------------------------------
(* Properties of the Diapost and the GFDL parser together (SpecParsers) *)

\* the Diapost call, running, returned or ended by an exception
DiapostCalled == pc \in {"diapost", "diapost_returned", "diapost_raised"}

\* C18: while every line read so far has an unrecognised token count, the
\* Diapost and the GFDL parser have not raised and the track they hold, and
\* return at the end of the file, has no Observation and the start date -1.
C18_OnlyMalformedGivesEmptyTrack ==
    /\ (DiapostCalled /\ \A i \in 1..Len(lines) : lines[i].ntoks # 8)
       => /\ pc # "diapost_raised" /\ raised = ""
          /\ Entries = <<>> /\ track.start_date = -1
    /\ (InGfdl /\ \A i \in 1..Len(lines) : lines[i].ntoks \notin {20, 43})
       => /\ raised = ""
          /\ Entries = <<>> /\ track.start_date = -1

\* a Diapost file of three lines of 7 tokens was parsed to its end
C18_Witness ==
    /\ pc = "diapost_returned"
    /\ Len(lines) = 3
    /\ \A i \in 1..3 : lines[i].ntoks = 7
    /\ Entries = <<>> /\ track.start_date = -1

\* line i of a Diapost file has the wrong token count or a token that is no
\* number
BadRecord(i) == lines[i].ntoks # 8 \/ lines[i].bad # ""

\* the lines read so far without the bad records
GoodRecords == SelectSeq(lines, LAMBDA l : l.ntoks = 8 /\ l.bad = "")

\* C19: a single bad record, of the wrong token count or with an unparsable
\* field, does not end the parse: the Diapost call does not raise and holds
\* the Observations of the file without that line.
C19_BadRecordIsSkipped ==
    (DiapostCalled /\ Cardinality({i \in 1..Len(lines) : BadRecord(i)}) <= 1)
    => /\ pc # "diapost_raised"
       /\ Entries = get_diapost_track_data(GoodRecords, args).tracker_entries

\* forecast hour h is not beyond the duration of the call
WithinCap(h) == IsNone(args.duration) \/ h * 3600 <= Val(args.duration)

\* C20: under a duration of D seconds every Observation of a Diapost or a
\* GFDL track has fhr * 3600 <= D, and the cap drops no line with
\* fhr * 3600 <= D, the one exactly at the cap included; under a duration of
\* None no line is dropped for its forecast hour.  With the other filters
\* off, the Diapost track has one Observation per 8-token line within the
\* cap, the GFDL track one per forecast hour of a recognised line within it.
C20_DurationCap ==
    /\ (InDiapost \/ InGfdl)
       => \A k \in 1..Len(Entries) : WithinCap(Entries[k].fhr)
    /\ (/\ InDiapost /\ args.include_flagged_entries
        /\ IsNone(args.nswe_thresh) /\ ~args.skip_land_points)
       => LET within == Ascending({i \in 1..Len(lines) :
                                     lines[i].ntoks = 8 /\ WithinCap(lines[i].fhr)})
          IN  /\ Len(Entries) = Len(within)
              /\ \A k \in 1..Len(Entries) : Entries[k].fhr = lines[within[k]].fhr
    /\ (InGfdl /\ args.include_flagged_entries /\ ~args.skip_land_points)
       => {Entries[k].fhr : k \in 1..Len(Entries)}
          = {HourOf(i) : i \in {j \in 1..Len(lines) :
                                   Recognised(j) /\ WithinCap(HourOf(j))}}

\* under a duration of 3600 s, a Diapost file with lines for the hours 0, 1
\* and 2 returned the Observations for the hours 0 and 1
C20_Witness ==
    /\ pc = "diapost_returned"
    /\ args.duration = Some(3600)
    /\ Len(lines) = 3
    /\ \A i \in 1..3 : lines[i].ntoks = 8 /\ lines[i].fhr = i - 1
    /\ Len(Entries) = 2
    /\ Entries[1].fhr = 0 /\ Entries[2].fhr = 1

-----------------------------------------------------------------------------
(* Properties of the geofence (SpecDiapost) *)

\* (lat, lon) lies in the box <<n, s, w, e>> of signed degrees, a None bound
\* imposing nothing
InBox(lat, lon, box) ==
    /\ IsNone(box[1]) \/ lat <= Val(box[1])
    /\ IsNone(box[2]) \/ Val(box[2]) <= lat
    /\ IsNone(box[3]) \/ Val(box[3]) <= lon
    /\ IsNone(box[4]) \/ lon <= Val(box[4])

\* C21: under a bounding box, with the other filters off, the Diapost track
\* holds exactly the Observations of the 8-token lines whose point lies in
\* the box, s <= lat <= n and w <= lon <= e in signed degrees, also for a
\* box that straddles the equator or the prime meridian.
C21_BoundingBoxExact ==
    (/\ InDiapost /\ ~IsNone(args.nswe_thresh)
     /\ args.include_flagged_entries /\ IsNone(args.duration)
     /\ ~args.skip_land_points)
    => LET inside == Ascending({i \in 1..Len(lines) :
                                  /\ lines[i].ntoks = 8
                                  /\ InBox(lines[i].lat, lines[i].lon, args.nswe_thresh)})
       IN  /\ Len(Entries) = Len(inside)
           /\ \A k \in 1..Len(Entries) :
                 /\ Entries[k].lat = lines[inside[k]].lat
                 /\ Entries[k].lon = lines[inside[k]].lon

-----------------------------------------------------------------------------
(* Properties of the returned tracks *)

\* C22: in a track the Diapost or the GFDL parser returns, every
\* Observation's start_date equals the track's start_date, also when the
\* lines of the file carry different start-date tokens.
C22_SharedReferenceEpoch ==
    pc \in {"diapost_returned", "gfdl_returned"}
    => \A k \in 1..Len(Entries) : Entries[k].start_date = track.start_date

\* C23: on a track the GEOS5 parser returns, the three derived lookups
\* complete without error, and the forecast-hour and the forecast-timestamp
\* lookup map every key of the track to an Observation with that key.
C23_DerivedLookupsSupported ==
    pc = "geos5_returned"
    => /\ absolute_times_dict_raises(track) = ""
       /\ \A k \in 1..Len(Entries) :
             /\ fhr_dict(track)[Entries[k].fhr].fhr = Entries[k].fhr
             /\ fcst_date_dict(track)[Entries[k].fcst_date].fcst_date
                = Entries[k].fcst_date

-----------------------------------------------------------------------------
(* Properties of a diff that outlives its construction (SpecDiffHeld) *)

\* the fields of a ForecastTrackDiff that hold a Track
RefFields == {"track_one", "track_two"}

\* the Track a reference held by the diff denotes
Deref(ref) == IF ref = "trackOne" THEN track_one ELSE track_two

\* everything that can be read through the diff object: its own fields and,
\* through each reference it holds, the object referred to
ThroughDiff ==
    [f \in DOMAIN diff |->
       IF f \in RefFields THEN Deref(diff[f]) ELSE diff[f]]

\* C24: after the constructor returns the diff holds no field referring to
\* trackOne or trackTwo, and a later change to a source Track changes nothing
\* that can be read through the diff.
C24_SourcesNotRetained ==
    [][(pc = "diffed" /\ diff.status = "ok")
       => /\ \A f \in DOMAIN diff \cap RefFields : diff[f] \notin TrackRefs
          /\ ThroughDiff' = ThroughDiff]_vars

-----------------------------------------------------------------------------
(* Properties of the file handles (SpecHandles) *)

\* C25: once a call of a parser or of get_track_data has ended, by return or
\* by exception, no file object the call opened is still open.
C25_HandlesClosedAtEnd ==
    pc \in Ended => handles = {}

-----------------------------------------------------------------------------
(* Properties of the order of a returned track *)

\* C26: along the tracker_entries of a Track a parser returned, the forecast
\* time (reference epoch + fhr*3600) never decreases.
C26_InsertionOrderChronological ==
    pc \in {"diapost_returned", "gfdl_returned", "bdeck_returned", "nolan_returned"}
    => \A k \in 1..(Len(Entries) - 1) :
          get_fhr_epoch(Entries[k]) <= get_fhr_epoch(Entries[k + 1])

-----------------------------------------------------------------------------
(* Properties of the position error (SpecDiff) *)

\* the positions held by the two tracks
TrackPoints ==
    {<<OneEntries[i].lat, OneEntries[i].lon>> : i \in 1..Len(OneEntries)}
    \cup {<<TwoEntries[j].lat, TwoEntries[j].lon>> : j \in 1..Len(TwoEntries)}

\* C27: the distance is symmetric and zero on identical points, so at every
\* timestamp aligned in both diff(A, B) and diff(B, A) the two hold the same
\* track_error, and no track_error is negative.
C27_TrackErrorSymmetric ==
    (Diffed /\ diff.status = "ok")
    => /\ \A P \in TrackPoints, Q \in TrackPoints :
             /\ great_circle(P, Q) = great_circle(Q, P)
             /\ great_circle(P, P) = 0
       /\ \A k \in 1..Len(DiffEntries), l \in 1..Len(Reverse.tracker_entries) :
             get_fhr_epoch(OneEntries[diff_src[k]])
                = get_fhr_epoch(TwoEntries[Reverse.src[l]])
             => DiffEntries[k].track_error = Reverse.tracker_entries[l].track_error
       /\ \A k \in 1..Len(DiffEntries) : DiffEntries[k].track_error >= 0

-----------------------------------------------------------------------------
(* Properties of the tracks get_track_data returns (SpecDetect) *)

\* get_track_data has returned the Track of the parser it called
DetectReturned ==
    /\ det.path # "none"
    /\ pc \in {"diapost_returned", "gfdl_returned", "nolan_returned",
               "geos5_returned", "bdeck_returned"}

\* C28: no Observation of a Track returned by get_track_data is flagged.
C28_DetectedTrackUnflagged ==
    DetectReturned => \A k \in 1..Len(Entries) : ~Entries[k].flagged

\* a Diapost file with a flagged line and a line that is kept went through
\* get_track_data
C28_Witness ==
    /\ DetectReturned
    /\ pc = "diapost_returned"
    /\ \E i \in 1..Len(lines) : lines[i].ntoks = 8 /\ lines[i].flag # 0
    /\ Len(Entries) > 0

-----------------------------------------------------------------------------
(* Frame of the construction (SpecDiff) *)

\* C29: the step that constructs ForecastTrackDiff(A, B), whether it returns
\* or raises, leaves A and B as they were, and the diff it returns has A's
\* start_date.
C29_ConstructionLeavesSources ==
    [][pc = "two"
       => /\ track_one' = track_one
          /\ track_two' = track_two
          /\ diff'.status = "ok" => diff'.start_date = track_one.start_date]_vars

\* a diff with entries, built from two tracks of different start dates
C29_Witness ==
    /\ Diffed /\ diff.status = "ok"
    /\ track_one.start_date # track_two.start_date
    /\ Len(DiffEntries) > 0
    /\ diff.start_date = track_one.start_date

-----------------------------------------------------------------------------
(* Properties of repeated keys (SpecDiff) *)

\* the observations of trackTwo at the absolute time of trackOne's entry i
TwoAtTimeOf(i) ==
    {j \in 1..Len(TwoEntries) :
       get_fhr_epoch(TwoEntries[j]) = get_fhr_epoch(OneEntries[i])}

\* the largest element of a non-empty finite set of integers
MaxOf(S) == CHOOSE x \in S : \A y \in S : y <= x

=============================================================================
